---- MODULE Spec2Model ----
(***************************************************************************)
(* Model of the SMS payment platform: the keyword/regex classifier         *)
(* (ml_classifier.py), the ingestion handler and field extractor (app.py)  *)
(* and the two verification operations (payment_verification.py).          *)
(* Texts are TLA+ strings handled character by character.                  *)
(***************************************************************************)
EXTENDS Integers, Sequences, FiniteSets, Bags, TLC

VARIABLES
    messages,   \* bag of the rows of the "Messages" table
    payments,   \* bag of the rows of the "payments" table
    clock,      \* the time datetime.now() returns, as a logical clock
    last,       \* the last request handled: its inputs and what it returned or raised
    pending,    \* SpecVerify: the single verification call still to be made
    text,       \* SpecClassify: the SMS text under classification
    cls,        \* SpecClassify: classify_sms(text)
    added       \* SpecClassify: number of keywords added to the text so far

vars == <<messages, payments, clock, last, pending, text, cls, added>>

(***************************************************************************)
(* Python str primitives                                                   *)
(***************************************************************************)
\* the substring s[i..j] (1-based, inclusive), empty when the range is not inside s
Slice(s, i, j) == IF i < 1 \/ j > Len(s) \/ i > j THEN "" ELSE SubSeq(s, i, j)

Char(s, i) == Slice(s, i, i)

Suffix(s, i) == Slice(s, i, Len(s))

\* str.lower() on one character (ASCII letters; other characters are unchanged)
LowerOf ==
    [A |-> "a", B |-> "b", C |-> "c", D |-> "d", E |-> "e", F |-> "f", G |-> "g",
     H |-> "h", I |-> "i", J |-> "j", K |-> "k", L |-> "l", M |-> "m", N |-> "n",
     O |-> "o", P |-> "p", Q |-> "q", R |-> "r", S |-> "s", T |-> "t", U |-> "u",
     V |-> "v", W |-> "w", X |-> "x", Y |-> "y", Z |-> "z"]

UpperLetters == DOMAIN LowerOf

LowerLetters == {LowerOf[c] : c \in UpperLetters}

DigitValue == ("0" :> 0) @@ ("1" :> 1) @@ ("2" :> 2) @@ ("3" :> 3) @@ ("4" :> 4) @@
              ("5" :> 5) @@ ("6" :> 6) @@ ("7" :> 7) @@ ("8" :> 8) @@ ("9" :> 9)

IsDigit(c) == c \in DOMAIN DigitValue

IsAlpha(c) == c \in UpperLetters \/ c \in LowerLetters

IsSpace(c) == c \in {" ", "\t", "\n", "\r"}

LowerChar(c) == IF c \in UpperLetters THEN LowerOf[c] ELSE c

RECURSIVE Lower(_)
Lower(s) == IF s = "" THEN "" ELSE LowerChar(Char(s, 1)) \o Lower(Suffix(s, 2))

StartsWith(s, i, k) == i >= 1 /\ i + Len(k) - 1 <= Len(s) /\ Slice(s, i, i + Len(k) - 1) = k

Contains(s, k) == \E i \in 1..(Len(s) - Len(k) + 1) : StartsWith(s, i, k)

EndsWith(s, k) == Len(k) <= Len(s) /\ Suffix(s, Len(s) - Len(k) + 1) = k

RECURSIVE Replace(_, _, _)
Replace(s, old, new) ==
    IF Len(s) < Len(old) \/ s = "" THEN s
    ELSE IF StartsWith(s, 1, old)
         THEN new \o Replace(Suffix(s, Len(old) + 1), old, new)
         ELSE Char(s, 1) \o Replace(Suffix(s, 2), old, new)

RECURSIVE LStrip(_)
LStrip(s) == IF s # "" /\ IsSpace(Char(s, 1)) THEN LStrip(Suffix(s, 2)) ELSE s

RECURSIVE RStrip(_)
RStrip(s) == IF s # "" /\ IsSpace(Char(s, Len(s))) THEN RStrip(Slice(s, 1, Len(s) - 1)) ELSE s

Strip(s) == RStrip(LStrip(s))

LastChars(s, n) == IF Len(s) <= n THEN s ELSE Suffix(s, Len(s) - n + 1)

(***************************************************************************)
(* int(str): optional sign, decimal digits, single underscores between     *)
(* digits, surrounding whitespace ignored.  ok = FALSE stands for the      *)
(* ValueError that int() raises.                                           *)
(***************************************************************************)
RECURSIVE IsDigitBody(_)
IsDigitBody(s) ==
    /\ s # ""
    /\ IsDigit(Char(s, 1))
    /\ \/ Len(s) = 1
       \/ IsDigitBody(Suffix(s, 2))
       \/ Len(s) >= 3 /\ Char(s, 2) = "_" /\ IsDigitBody(Suffix(s, 3))

RECURSIVE DigitsValue(_, _)
DigitsValue(s, acc) ==
    IF s = "" THEN acc
    ELSE IF Char(s, 1) = "_" THEN DigitsValue(Suffix(s, 2), acc)
    ELSE DigitsValue(Suffix(s, 2), 10 * acc + DigitValue[Char(s, 1)])

ParseInt(s) ==
    LET t == Strip(s)
        signed == t # "" /\ Char(t, 1) \in {"+", "-"}
        body == IF signed THEN Suffix(t, 2) ELSE t
    IN IF ~IsDigitBody(body) THEN [ok |-> FALSE, value |-> 0]
       ELSE IF signed /\ Char(t, 1) = "-" THEN [ok |-> TRUE, value |-> 0 - DigitsValue(body, 0)]
       ELSE [ok |-> TRUE, value |-> DigitsValue(body, 0)]

(***************************************************************************)
(* Regular-expression building blocks (leftmost match, greedy quantifiers  *)
(* with backtracking, as Python's re.search)                               *)
(***************************************************************************)
RECURSIVE DigitRun(_, _)
DigitRun(s, i) == IF i <= Len(s) /\ IsDigit(Char(s, i)) THEN 1 + DigitRun(s, i + 1) ELSE 0

RECURSIVE SkipSpace(_, _)
SkipSpace(s, i) == IF i <= Len(s) /\ IsSpace(Char(s, i)) THEN SkipSpace(s, i + 1) ELSE i

RECURSIVE GroupRun(_, _)
GroupRun(s, i) ==
    IF i <= Len(s) /\ Char(s, i) = "," /\ DigitRun(s, i + 1) >= 3 THEN 1 + GroupRun(s, i + 4) ELSE 0

Min(a, b) == IF a <= b THEN a ELSE b

Max(S) == CHOOSE x \in S : \A y \in S : y <= x

NoMatch == [start |-> 0, stop |-> 0, gstart |-> 0, gstop |-> 0]

\* \s*RWF at position i: index of the last matched character, 0 when it fails
RwfEnd(s, i) == LET k == SkipSpace(s, i) IN IF StartsWith(s, k, "RWF") THEN k + 2 ELSE 0

\* (\d{1,3}(?:,\d{3})*|\d+)\s*RWF anchored at position i
\* the match whose group is the n characters from position i
AmountMatch(s, i, n) == [start |-> i, stop |-> RwfEnd(s, i + n), gstart |-> i, gstop |-> i + n - 1]

\* the lengths the first alternative \d{1,3}(?:,\d{3})* can take before
\* \s*RWF, as <<digits, groups>>
AmountAlt1(s, i) ==
    {c \in (1..Min(3, DigitRun(s, i))) \X (0..Len(s)) :
        c[2] <= GroupRun(s, i + c[1]) /\ RwfEnd(s, i + c[1] + 4 * c[2]) # 0}

\* the lengths the second alternative \d+ can take before \s*RWF
AmountAlt2(s, i) == {d \in 1..DigitRun(s, i) : RwfEnd(s, i + d) # 0}

\* greedy: the most digits, then the most groups
Greediest(alt) == CHOOSE c \in alt : \A x \in alt : x[1] < c[1] \/ (x[1] = c[1] /\ x[2] <= c[2])

\* the first alternative is tried before the second
AmountChoice(s, i, alt1, alt2) ==
    IF alt1 # {} THEN AmountMatch(s, i, Greediest(alt1)[1] + 4 * Greediest(alt1)[2])
    ELSE IF alt2 # {} THEN AmountMatch(s, i, Max(alt2))
    ELSE NoMatch

AmountAt(s, i) == AmountChoice(s, i, AmountAlt1(s, i), AmountAlt2(s, i))

Group0(s, m) == Slice(s, m.start, m.stop)

Group1(s, m) == Slice(s, m.gstart, m.gstop)

\* TxId[:\s]*([\d]+), the literal compared after folding case when ignorecase
RECURSIVE SkipColonSpace(_, _)
SkipColonSpace(s, i) ==
    IF i <= Len(s) /\ (Char(s, i) = ":" \/ IsSpace(Char(s, i))) THEN SkipColonSpace(s, i + 1) ELSE i

TxIdAt(s, i) ==
    LET k == SkipColonSpace(s, i + 4)
        run == DigitRun(s, k)
    IN IF StartsWith(s, i, "TxId") /\ run >= 1
       THEN [start |-> i, stop |-> k + run - 1, gstart |-> k, gstop |-> k + run - 1]
       ELSE NoMatch

TxIdAtIgnoreCase(s, i) ==
    LET k == SkipColonSpace(s, i + 4)
        run == DigitRun(s, k)
    IN IF Lower(Slice(s, i, i + 3)) = "txid" /\ run >= 1
       THEN [start |-> i, stop |-> k + run - 1, gstart |-> k, gstop |-> k + run - 1]
       ELSE NoMatch

\* \*161\*TxId:([\d]+)\*R\*
MomoTxIdAt(s, i) ==
    LET run == DigitRun(s, i + 10)
    IN IF StartsWith(s, i, "*161*TxId:") /\ run >= 1 /\ StartsWith(s, i + 10 + run, "*R*")
       THEN [start |-> i, stop |-> i + 12 + run, gstart |-> i + 10, gstop |-> i + 9 + run]
       ELSE NoMatch

RECURSIVE NameRun(_, _, _)
NameRun(s, i, withSpaceClass) ==
    IF i <= Len(s) /\ (IsAlpha(Char(s, i)) \/ Char(s, i) = " " \/ (withSpaceClass /\ IsSpace(Char(s, i))))
    THEN 1 + NameRun(s, i + 1, withSpaceClass) ELSE 0

\* from ([A-Za-z ]+) \(
SenderAt(s, i) ==
    LET run == NameRun(s, i + 5, FALSE)
        ns == {n \in 1..run : StartsWith(s, i + 5 + n, " (")}
    IN IF StartsWith(s, i, "from ") /\ ns # {}
       THEN [start |-> i, stop |-> i + 5 + Max(ns) + 1, gstart |-> i + 5, gstop |-> i + 4 + Max(ns)]
       ELSE NoMatch

\* from ([A-Za-z\s]+)\s*\(
SenderAtMl(s, i) ==
    LET run == NameRun(s, i + 5, TRUE)
        ns == {n \in 1..run : Char(s, SkipSpace(s, i + 5 + n)) = "("}
    IN IF StartsWith(s, i, "from ") /\ ns # {}
       THEN [start |-> i, stop |-> SkipSpace(s, i + 5 + Max(ns)),
             gstart |-> i + 5, gstop |-> i + 4 + Max(ns)]
       ELSE NoMatch

\* at (\d{4}-\d{2}-\d{2} \d{2}:\d{2}:\d{2})
TimestampShape == "dddd-dd-dd dd:dd:dd"

TimestampAt(s, i) ==
    IF /\ StartsWith(s, i, "at ")
       /\ i + 2 + Len(TimestampShape) <= Len(s)
       /\ \A k \in 1..Len(TimestampShape) :
             IF Char(TimestampShape, k) = "d" THEN IsDigit(Char(s, i + 2 + k))
             ELSE Char(s, i + 2 + k) = Char(TimestampShape, k)
    THEN [start |-> i, stop |-> i + 2 + Len(TimestampShape),
          gstart |-> i + 3, gstop |-> i + 2 + Len(TimestampShape)]
    ELSE NoMatch

RECURSIVE StarRun(_, _)
StarRun(s, i) == IF i <= Len(s) /\ Char(s, i) = "*" THEN 1 + StarRun(s, i + 1) ELSE 0

\* \(\*+(\d{2,3})\)
PhoneAt(s, i) ==
    LET stars == StarRun(s, i + 1)
        k == i + 1 + stars
        ds == {d \in 2..Min(3, DigitRun(s, k)) : Char(s, k + d) = ")"}
    IN IF Char(s, i) = "(" /\ stars >= 1 /\ ds # {}
       THEN [start |-> i, stop |-> k + Max(ds), gstart |-> k, gstop |-> k + Max(ds) - 1]
       ELSE NoMatch

\* re.search: of the matches anchored at each position, the leftmost one
Leftmost(matches) ==
    IF matches \subseteq {NoMatch} THEN NoMatch
    ELSE CHOOSE m \in matches : m.start # 0 /\ \A n \in matches : n.start = 0 \/ m.start <= n.start

SearchAmount(s) == Leftmost({AmountAt(s, i) : i \in 1..Len(s)})

SearchTxId(s) == Leftmost({TxIdAt(s, i) : i \in 1..Len(s)})

SearchTxIdIgnoreCase(s) == Leftmost({TxIdAtIgnoreCase(s, i) : i \in 1..Len(s)})

SearchMomoTxId(s) == Leftmost({MomoTxIdAt(s, i) : i \in 1..Len(s)})

SearchSender(s) == Leftmost({SenderAt(s, i) : i \in 1..Len(s)})

SearchSenderMl(s) == Leftmost({SenderAtMl(s, i) : i \in 1..Len(s)})

SearchTimestamp(s) == Leftmost({TimestampAt(s, i) : i \in 1..Len(s)})

SearchPhone(s) == Leftmost({PhoneAt(s, i) : i \in 1..Len(s)})

(***************************************************************************)
(* ml_classifier.py : PaymentSMSClassifier                                 *)
(***************************************************************************)
payment_success_keywords ==
    <<"received", "sent", "paid", "successful", "completed",
      "confirmed", "approved", "transaction", "transfer">>

payment_failure_keywords ==
    <<"failed", "declined", "insufficient", "pending", "cancelled", "error", "rejected">>

\* the three momo_patterns, searched with re.IGNORECASE: literals are
\* compared on the case-folded text, \d+ is unaffected by case
MomoPrefixes == <<"*161*txid:", "you have received ", "you have sent ">>

MomoSuffixes == <<"*r*", " rwf", " rwf">>

MomoPatternAt(k, l, i) ==
    LET pre == MomoPrefixes[k]
        run == DigitRun(l, i + Len(pre))
    IN /\ StartsWith(l, i, pre)
       /\ \E d \in 1..run : StartsWith(l, i + Len(pre) + d, MomoSuffixes[k])

MomoPatternMatches(k, s) == LET l == Lower(s) IN \E i \in 1..Len(l) : MomoPatternAt(k, l, i)

AnyMomoPattern(s) == \E k \in 1..Len(MomoPrefixes) : MomoPatternMatches(k, s)

\* sum(1 for keyword in keywords if keyword in text_lower)
KeywordMatches(keywords, text_lower) ==
    Cardinality({k \in 1..Len(keywords) : Contains(text_lower, keywords[k])})

is_payment_related(sms_text) ==
    LET text_lower == Lower(sms_text)
        success_score == KeywordMatches(payment_success_keywords, text_lower)
        failure_score == KeywordMatches(payment_failure_keywords, text_lower)
    IN IF AnyMomoPattern(sms_text) THEN TRUE
       ELSE success_score > 0 \/ failure_score > 0

\* faulty variant: success keywords are scanned before failure keywords
classify_payment_status_success_first(sms_text) ==
    LET text_lower == Lower(sms_text)
    IN IF ~is_payment_related(sms_text) THEN "unknown"
       ELSE IF \E k \in 1..Len(payment_success_keywords) :
                   Contains(text_lower, payment_success_keywords[k]) THEN "success"
       ELSE IF \E k \in 1..Len(payment_failure_keywords) :
                   Contains(text_lower, payment_failure_keywords[k]) THEN "failed"
       ELSE "unknown"

classify_payment_status(sms_text) ==
    LET text_lower == Lower(sms_text)
    IN IF ~is_payment_related(sms_text) THEN "unknown"
       ELSE IF \E k \in 1..Len(payment_failure_keywords) :
                   Contains(text_lower, payment_failure_keywords[k]) THEN "failed"
       ELSE IF \E k \in 1..Len(payment_success_keywords) :
                   Contains(text_lower, payment_success_keywords[k]) THEN "success"
       ELSE "unknown"

\* Confidence scores are kept in tenths: 7 is 0.7, 10 is 1.0.  The floats the
\* code can produce are 0.0, 0.1, 0.2, 0.3, 0.7, 0.7999999999999999,
\* 0.8999999999999999 and 1.0; the tenths keep their order and their bounds.
PatternScore == 7

KeywordScore == 1

KeywordScoreCap == 3

ScoreCap == 10

\* faulty variant: the keyword part is not capped at 0.3
get_confidence_score_uncapped(sms_text) ==
    LET text_lower == Lower(sms_text)
        pattern_score == IF AnyMomoPattern(sms_text) THEN PatternScore ELSE 0
        success_matches == KeywordMatches(payment_success_keywords, text_lower)
        failure_matches == KeywordMatches(payment_failure_keywords, text_lower)
        total_score == pattern_score + (success_matches + failure_matches) * KeywordScore
    IN IF Strip(sms_text) = "" THEN 0 ELSE Min(ScoreCap, total_score)

get_confidence_score(sms_text) ==
    LET text_lower == Lower(sms_text)
        pattern_score == IF AnyMomoPattern(sms_text) THEN PatternScore ELSE 0
        success_matches == KeywordMatches(payment_success_keywords, text_lower)
        failure_matches == KeywordMatches(payment_failure_keywords, text_lower)
        total_score == pattern_score
                       + Min(KeywordScoreCap, (success_matches + failure_matches) * KeywordScore)
    IN IF Strip(sms_text) = "" THEN 0 ELSE Min(ScoreCap, total_score)

\* is_payment_sms is is_payment_related(sms_text); the other fields stay
\* empty when it is False (the early return)
extract_payment_info(sms_text) ==
    IF ~is_payment_related(sms_text)
    THEN [txid |-> "", amount |-> "", sender_name |-> "", phone_digits |-> "",
          is_payment_sms |-> FALSE]
    ELSE [txid |-> Group1(sms_text, SearchTxIdIgnoreCase(sms_text)),
          amount |-> Group1(sms_text, SearchAmount(sms_text)),
          sender_name |-> Strip(Group1(sms_text, SearchSenderMl(sms_text))),
          phone_digits |-> Group1(sms_text, SearchPhone(sms_text)),
          is_payment_sms |-> TRUE]

\* the dict classify_sms returns, from its three locals
classification_of(payment_info, status, confidence) ==
    [payment_info |-> payment_info, status |-> status, confidence |-> confidence,
     is_payment_sms |-> payment_info.is_payment_sms]

classify_sms(sms_text) ==
    classification_of(extract_payment_info(sms_text), classify_payment_status(sms_text),
                      get_confidence_score(sms_text))

(***************************************************************************)
(* app.py : extract_fields                                                 *)
(***************************************************************************)
NoTimestamp == "None"

\* lines 33-35: the second pattern is tried only when the first fails
FirstMatching(first, second) == IF first.start # 0 THEN first ELSE second

\* line 62: timestamp or None
OrNone(timestamp) == IF timestamp # "" THEN timestamp ELSE NoTimestamp

extract_fields(message) ==
    [raw_text |-> message,
     txid |-> Group1(message, FirstMatching(SearchTxId(message), SearchMomoTxId(message))),
     amount |-> Group0(message, SearchAmount(message)),
     sender_name |-> Strip(Group1(message, SearchSender(message))),
     timestamp |-> OrNone(Group1(message, SearchTimestamp(message)))]

(***************************************************************************)
(* payment_verification.py                                                 *)
(***************************************************************************)
REQUIRED_AMOUNT == 100

\* dict.get(key, default)
Get(d, key, default) == IF key \in DOMAIN d THEN d[key] ELSE default

\* transaction.get('amount', '').replace(' RWF', '').replace(',', '').strip()
AmountStr(transaction) == Strip(Replace(Replace(Get(transaction, "amount", ""), " RWF", ""), ",", ""))

\* faulty variant: an exact payment is treated as a shortage (<= in place of <)
verify_payment_exact_is_short(db_data, required_amount) ==
    IF Len(db_data) = 0
    THEN [status |-> "not_approved", message |-> "Payment is not approved."]
    ELSE LET parsed == ParseInt(AmountStr(db_data[1]))
             paid_amount == parsed.value
         IN IF ~parsed.ok
            THEN [status |-> "not_approved",
                  message |-> "Payment is not approved (invalid amount format)."]
            ELSE IF paid_amount <= required_amount
            THEN [status |-> "not_approved",
                  message |-> "Payment is not approved. You are short by "
                              \o ToString(required_amount - paid_amount) \o " RWF."]
            ELSE [status |-> "approved", message |-> "Payment is approved."]

\* db_data is the list of rows the select returned; only db_data[0] is read
verify_payment(db_data, required_amount) ==
    IF Len(db_data) = 0
    THEN [status |-> "not_approved", message |-> "Payment is not approved."]
    ELSE LET transaction == db_data[1]
             parsed == ParseInt(AmountStr(transaction))
             paid_amount == parsed.value
         IN IF ~parsed.ok
            THEN [status |-> "not_approved",
                  message |-> "Payment is not approved (invalid amount format)."]
            ELSE IF paid_amount = required_amount
            THEN [status |-> "approved", message |-> "Payment is approved."]
            ELSE IF paid_amount < required_amount
            THEN [status |-> "not_approved",
                  message |-> "Payment is not approved. You are short by "
                              \o ToString(required_amount - paid_amount) \o " RWF."]
            ELSE [status |-> "approved", message |-> "Payment is approved."]

\* faulty variant: only "claimed name inside stored name" is accepted
NameMatches_one_way(transaction, client_name) ==
    LET sms_sender_name == Strip(Lower(Get(transaction, "sender_name", "")))
        client_name_lower == Strip(Lower(client_name))
    IN sms_sender_name # "" /\ Contains(sms_sender_name, client_name_lower)

\* lines 58-62: the name check; TRUE when the early return is not taken
NameMatches(transaction, client_name) ==
    LET sms_sender_name == Strip(Lower(Get(transaction, "sender_name", "")))
        client_name_lower == Strip(Lower(client_name))
    IN ~(\/ sms_sender_name = ""
         \/ /\ ~Contains(sms_sender_name, client_name_lower)
            /\ ~Contains(client_name_lower, sms_sender_name))

\* faulty variant: all stored digits are compared, not only the last 2
PhoneMatches_all_digits(transaction, client_phone) ==
    LET client_last_digits ==
            LastChars(Replace(Replace(Replace(client_phone, "+", ""), " ", ""), "-", ""), 3)
        sms_phone_digits == Get(transaction, "sender_phone_digits", "")
    IN IF sms_phone_digits # ""
       THEN EndsWith(client_last_digits, LastChars(sms_phone_digits, 3))
       ELSE TRUE

\* lines 66-72: the phone check; TRUE when the early return is not taken
PhoneMatches(transaction, client_phone) ==
    LET client_last_digits ==
            LastChars(Replace(Replace(Replace(client_phone, "+", ""), " ", ""), "-", ""), 3)
        sms_phone_digits == Get(transaction, "sender_phone_digits", "")
    IN IF sms_phone_digits # ""
       THEN EndsWith(client_last_digits, LastChars(sms_phone_digits, 2))
       ELSE TRUE

\* faulty variant: the except branch still answers approved
record_verification_swallow(txid, client_name, client_phone, paid_amount, insert_ok, now) ==
    [result |-> [status |-> "approved",
                 message |-> "Payment verified successfully! Amount received: "
                             \o ToString(paid_amount) \o " RWF",
                 amount |-> paid_amount],
     record |-> [txid |-> txid, client_name |-> client_name, client_phone |-> client_phone,
                 verified_amount |-> paid_amount, verification_status |-> "approved",
                 created_at |-> now]]

\* lines 75-94, the try block: build payment_record, insert it, answer
\* approved; answer error when the insert raises.  insert_ok tells whether
\* the insert into "payments" succeeds; record is the row handed to it.
record_verification(txid, client_name, client_phone, paid_amount, insert_ok, now) ==
    LET payment_record == [txid |-> txid, client_name |-> client_name,
                           client_phone |-> client_phone,
                           verified_amount |-> paid_amount,
                           verification_status |-> "approved",
                           created_at |-> now]
    IN IF insert_ok
       THEN [result |-> [status |-> "approved",
                         message |-> "Payment verified successfully! Amount received: "
                                     \o ToString(paid_amount) \o " RWF",
                         amount |-> paid_amount],
             record |-> payment_record]
       ELSE [result |-> [status |-> "error",
                         message |-> "Failed to record payment verification."],
             record |-> payment_record]

\* faulty variant: the phone check is made before the name check
verify_payment_with_client_details_phone_first(db_data, txid, client_name, client_phone, required_amount, insert_ok, now) ==
    IF Len(db_data) = 0
    THEN [result |-> [status |-> "not_approved",
                      message |-> "Payment not found. Please check your TxID."],
          rules |-> <<"lookup">>]
    ELSE LET transaction == db_data[1]
             parsed == ParseInt(AmountStr(transaction))
             paid_amount == parsed.value
         IN IF ~parsed.ok
            THEN [result |-> [status |-> "not_approved",
                              message |-> "Invalid payment amount format."],
                  rules |-> <<"lookup", "amount_format">>]
            ELSE IF paid_amount < required_amount
            THEN [result |-> [status |-> "not_approved",
                              message |-> "Insufficient payment. You are short by "
                                          \o ToString(required_amount - paid_amount) \o " RWF."],
                  rules |-> <<"lookup", "amount_format", "amount">>]
            ELSE IF ~PhoneMatches(transaction, client_phone)
            THEN [result |-> [status |-> "not_approved",
                              message |-> "Phone number verification failed. Please check your mobile number."],
                  rules |-> <<"lookup", "amount_format", "amount", "phone">>]
            ELSE IF ~NameMatches(transaction, client_name)
            THEN [result |-> [status |-> "not_approved",
                              message |-> "Name verification failed. Please ensure you entered the correct name."],
                  rules |-> <<"lookup", "amount_format", "amount", "phone", "name">>]
            ELSE [rules |-> <<"lookup", "amount_format", "amount", "name", "phone", "insert">>]
                 @@ record_verification(txid, client_name, client_phone, paid_amount,
                                        insert_ok, now)

\* The value is [result, rules] and, when the insert was reached, record: the
\* returned dict, the checks that were evaluated in order, and the
\* payment_record handed to the payments insert.
verify_payment_with_client_details(db_data, txid, client_name, client_phone, required_amount, insert_ok, now) ==
    IF Len(db_data) = 0
    THEN [result |-> [status |-> "not_approved",
                      message |-> "Payment not found. Please check your TxID."],
          rules |-> <<"lookup">>]
    ELSE LET transaction == db_data[1]
             parsed == ParseInt(AmountStr(transaction))
             paid_amount == parsed.value
         IN IF ~parsed.ok
            THEN [result |-> [status |-> "not_approved",
                              message |-> "Invalid payment amount format."],
                  rules |-> <<"lookup", "amount_format">>]
            ELSE IF paid_amount < required_amount
            THEN [result |-> [status |-> "not_approved",
                              message |-> "Insufficient payment. You are short by "
                                          \o ToString(required_amount - paid_amount) \o " RWF."],
                  rules |-> <<"lookup", "amount_format", "amount">>]
            ELSE IF ~NameMatches(transaction, client_name)
            THEN [result |-> [status |-> "not_approved",
                              message |-> "Name verification failed. Please ensure you entered the correct name."],
                  rules |-> <<"lookup", "amount_format", "amount", "name">>]
            ELSE IF ~PhoneMatches(transaction, client_phone)
            THEN [result |-> [status |-> "not_approved",
                              message |-> "Phone number verification failed. Please check your mobile number."],
                  rules |-> <<"lookup", "amount_format", "amount", "name", "phone">>]
            ELSE [rules |-> <<"lookup", "amount_format", "amount", "name", "phone", "insert">>]
                 @@ record_verification(txid, client_name, client_phone, paid_amount,
                                        insert_ok, now)

(***************************************************************************)
(* The external store                                                      *)
(***************************************************************************)
\* supabase.table("Messages").select('*').eq('txid', txid)
Matching(txid) == {row \in BagToSet(messages) : row.txid = txid}

\* The select has no ORDER BY, so any matching row may be served first;
\* the code reads only data[0].
Selections(txid) == IF Matching(txid) = {} THEN {<<>>} ELSE {<<row>> : row \in Matching(txid)}

Insert(table, row) == table (+) SetToBag({row})

(***************************************************************************)
(* Bounds and inputs                                                       *)
(***************************************************************************)
MaxMessages == 2

MaxClock == 1

MaxStored == 2

MaxAdded == 1

SmsTexts ==
    {"You have received 150 RWF from John Smith (***56) TxId:1",
     "Payment of 80 RWF received from Alice (*456). TxId: 1",
     "You have received 5000RWF from Jane Doe TxId:2",
     "Transfer of 200 RWF failed TxId:1",
     "*161*TxId:3*R*",
     "Your package will arrive tomorrow"}

TxIds == {"1", "2", "3"}

ClientNames == {"john smith", "Alice"}

ClientPhones == {"+250 788-123-456", "0788123499"}

(***************************************************************************)
(* app.py : receive_sms.  insert_ok tells whether the insert into          *)
(* "Messages" succeeds or raises; nothing in the handler catches it.       *)
(***************************************************************************)
\* faulty variant: the "only process successful payment SMS" check is missing
receive_sms_body_any_status(classification, extracted, insert_ok) ==
    LET ml_info == classification.payment_info
        with_phone == IF ml_info.phone_digits # ""
                      THEN [sender_phone_digits |-> ml_info.phone_digits] @@ extracted
                      ELSE extracted
        fields == [ml_confidence |-> classification.confidence,
                   payment_status |-> classification.status] @@ with_phone
    IN IF ~classification.is_payment_sms
       THEN [raised |-> FALSE, insert |-> FALSE, classification |-> classification,
             response |-> [status |-> "ignored", reason |-> "Not a payment-related SMS",
                           confidence |-> classification.confidence]]
       ELSE IF insert_ok
       THEN [raised |-> FALSE, insert |-> TRUE, classification |-> classification,
             fields |-> fields,
             response |-> [status |-> "saved", data |-> fields,
                           ml_classification |-> classification]]
       ELSE [raised |-> TRUE, insert |-> TRUE, classification |-> classification,
             fields |-> fields]

\* lines 74-105, given the classification and the extracted fields.  The
\* value tells whether the insert was issued (insert), whether it raised
\* (nothing in the handler catches it), the row handed to it (fields), the
\* handler's local classification and the JSON response.
receive_sms_body(classification, extracted, insert_ok) ==
    LET ml_info == classification.payment_info
        with_phone == IF ml_info.phone_digits # ""
                      THEN [sender_phone_digits |-> ml_info.phone_digits] @@ extracted
                      ELSE extracted
        fields == [ml_confidence |-> classification.confidence,
                   payment_status |-> classification.status] @@ with_phone
    IN IF ~classification.is_payment_sms
       THEN [raised |-> FALSE, insert |-> FALSE, classification |-> classification,
             response |-> [status |-> "ignored", reason |-> "Not a payment-related SMS",
                           confidence |-> classification.confidence]]
       ELSE IF classification.status # "success"
       THEN [raised |-> FALSE, insert |-> FALSE, classification |-> classification,
             response |-> [status |-> "ignored",
                           reason |-> "Payment status: " \o classification.status,
                           confidence |-> classification.confidence]]
       ELSE IF insert_ok
       THEN [raised |-> FALSE, insert |-> TRUE, classification |-> classification,
             fields |-> fields,
             response |-> [status |-> "saved", data |-> fields,
                           ml_classification |-> classification]]
       ELSE [raised |-> TRUE, insert |-> TRUE, classification |-> classification,
             fields |-> fields]

\* classify_sms and extract_fields are each called once per request
receive_sms(message, insert_ok) ==
    CHOOSE out \in {receive_sms_body(classification, extracted, insert_ok) :
                       classification \in {classify_sms(message)},
                       extracted \in {extract_fields(message)}} : TRUE

\* receive_sms is a function of its two arguments; its values on the input
\* texts are tabulated once instead of being recomputed in every state
SmsResponses ==
    [message \in SmsTexts |-> [insert_ok \in BOOLEAN |-> receive_sms(message, insert_ok)]]

ReceiveSms(message, insert_ok) ==
    LET out == SmsResponses[message][insert_ok]
    IN /\ (out.insert /\ ~out.raised) => BagCardinality(messages) < MaxMessages
       /\ messages' = IF out.insert /\ ~out.raised THEN Insert(messages, out.fields) ELSE messages
       /\ last' = [op |-> "receive_sms", message |-> message] @@ out
       /\ UNCHANGED <<payments, clock>>

(***************************************************************************)
(* payment_verification.py : the two calls against the store.  lookup_ok   *)
(* tells whether the select on "Messages" answers or raises; the select is *)
(* outside every try block, so its exception leaves the function.  The     *)
(* clock is read when payment_record is built and has moved on by the next *)
(* reading.                                                                *)
(***************************************************************************)
VerifyPayment(txid, required_amount, lookup_ok) ==
    /\ \E db_data \in Selections(txid) :
          last' = IF lookup_ok
                  THEN [op |-> "verify_payment", txid |-> txid,
                        required_amount |-> required_amount, raised |-> FALSE,
                        db_data |-> db_data,
                        result |-> verify_payment(db_data, required_amount)]
                  ELSE [op |-> "verify_payment", txid |-> txid,
                        required_amount |-> required_amount, raised |-> TRUE]
    /\ UNCHANGED <<messages, payments, clock>>

VerifyPaymentWithClientDetails(txid, client_name, client_phone, required_amount, lookup_ok, insert_ok) ==
    \E db_data \in Selections(txid) :
       LET out == verify_payment_with_client_details(db_data, txid, client_name, client_phone,
                                                     required_amount, insert_ok, clock)
           call == [op |-> "verify_payment_with_client_details", txid |-> txid,
                    client_name |-> client_name, client_phone |-> client_phone,
                    required_amount |-> required_amount]
           reached_insert == lookup_ok /\ "record" \in DOMAIN out
       IN /\ reached_insert => clock < MaxClock
          /\ last' = IF ~lookup_ok THEN [raised |-> TRUE] @@ call
                     ELSE IF reached_insert
                     THEN [raised |-> FALSE, db_data |-> db_data, insert_ok |-> insert_ok]
                          @@ call @@ out
                     ELSE [raised |-> FALSE, db_data |-> db_data] @@ call @@ out
          /\ payments' = IF reached_insert /\ insert_ok THEN Insert(payments, out.record)
                         ELSE payments
          /\ clock' = IF reached_insert THEN clock + 1 ELSE clock
          /\ UNCHANGED messages

(***************************************************************************)
(* Spec: the service, any interleaving of ingestion and verification       *)
(***************************************************************************)
Init ==
    /\ messages = EmptyBag
    /\ payments = EmptyBag
    /\ clock = 0
    /\ last = [op |-> "none"]
    /\ pending = [op |-> "none"]
    /\ text = ""
    /\ cls = classify_sms("")
    /\ added = 0

Ingest ==
    /\ \E message \in SmsTexts, insert_ok \in BOOLEAN : ReceiveSms(message, insert_ok)
    /\ UNCHANGED <<pending, text, cls, added>>

VerifySimple ==
    /\ \E txid \in TxIds, lookup_ok \in BOOLEAN : VerifyPayment(txid, REQUIRED_AMOUNT, lookup_ok)
    /\ UNCHANGED <<pending, text, cls, added>>

VerifyWithIdentity ==
    /\ \E txid \in TxIds, client_name \in ClientNames, client_phone \in ClientPhones,
          lookup_ok \in BOOLEAN, insert_ok \in BOOLEAN :
          VerifyPaymentWithClientDetails(txid, client_name, client_phone, REQUIRED_AMOUNT,
                                         lookup_ok, insert_ok)
    /\ UNCHANGED <<pending, text, cls, added>>

Next == Ingest \/ VerifySimple \/ VerifyWithIdentity

Spec == Init /\ [][Next]_vars

(***************************************************************************)
(* SpecVerify: one verification call against a store filled by ingestion,  *)
(* over a wider range of stored rows and claimed details                   *)
(***************************************************************************)
StoredTexts ==
    {"You have received 150 RWF from John Smith (***56) TxId:1",
     "Payment of 80 RWF received from John Smith (***56). TxId: 1",
     "You have received 100 RWF from Jane Doe (*456) TxId:2",
     "You have received 1,500 RWF from john smith (MoMo) TxId:3",
     "You have received 5000RWF from Jane Doe (***56) TxId:4",
     "Paid 2,000  RWF TxId:5",
     "received TxId:6"}

\* the rows receive_sms writes for these texts
StoredRows == {receive_sms(message, TRUE).fields : message \in StoredTexts}

StoredBags == {SetToBag(rows) : rows \in {R \in SUBSET StoredRows : Cardinality(R) \in 1..MaxStored}}

VerifyTxIds == {"1", "2", "3", "4", "5", "6", "9"}

RequiredAmounts == {REQUIRED_AMOUNT, 150}

VerifyNames == {"JOHN SMITH ", "john", "Mr John Smith", "Alice", " "}

VerifyPhones == {"+250 788 123 45-6", "0788123356", "0788123499", "6", ""}

Calls ==
    {[op |-> "verify_payment", txid |-> t, required_amount |-> r] :
        t \in VerifyTxIds, r \in RequiredAmounts}
    \cup
    {[op |-> "verify_payment_with_client_details", txid |-> t, client_name |-> n,
      client_phone |-> p, required_amount |-> r] :
        t \in VerifyTxIds, n \in VerifyNames, p \in VerifyPhones, r \in RequiredAmounts}

InitVerify ==
    /\ messages \in StoredBags
    /\ payments = EmptyBag
    /\ clock = 0
    /\ last = [op |-> "none"]
    /\ pending \in Calls
    /\ text = ""
    /\ cls = classify_sms("")
    /\ added = 0

CallVerifySimple ==
    /\ pending.op = "verify_payment"
    /\ \E lookup_ok \in BOOLEAN : VerifyPayment(pending.txid, pending.required_amount, lookup_ok)
    /\ pending' = [op |-> "done"]
    /\ UNCHANGED <<text, cls, added>>

CallVerifyWithIdentity ==
    /\ pending.op = "verify_payment_with_client_details"
    /\ \E lookup_ok \in BOOLEAN, insert_ok \in BOOLEAN :
          VerifyPaymentWithClientDetails(pending.txid, pending.client_name, pending.client_phone,
                                         pending.required_amount, lookup_ok, insert_ok)
    /\ pending' = [op |-> "done"]
    /\ UNCHANGED <<text, cls, added>>

NextVerify == CallVerifySimple \/ CallVerifyWithIdentity

SpecVerify == InitVerify /\ [][NextVerify]_vars

(***************************************************************************)
(* SpecClassify: classify_sms on a text, and on the text with one more     *)
(* keyword added at either end                                             *)
(***************************************************************************)
ClassifyTexts ==
    {"", "  ",
     "Your package will arrive tomorrow",
     "*161*TxId:3*R*",
     "You have received 150 RWF",
     "YOU HAVE SENT 20 rwf but it Failed",
     "Payment failed",
     "transfer completed",
     "paid and confirmed, transaction approved"}

Keywords ==
    {payment_success_keywords[k] : k \in 1..Len(payment_success_keywords)}
    \cup {payment_failure_keywords[k] : k \in 1..Len(payment_failure_keywords)}

InitClassify ==
    /\ messages = EmptyBag
    /\ payments = EmptyBag
    /\ clock = 0
    /\ last = [op |-> "none"]
    /\ pending = [op |-> "none"]
    /\ text \in ClassifyTexts
    /\ cls = classify_sms(text)
    /\ added = 0

Classify(sms_text) ==
    /\ added < MaxAdded
    /\ text' = sms_text
    /\ cls' = classify_sms(sms_text)
    /\ added' = added + 1
    /\ UNCHANGED <<messages, payments, clock, last, pending>>

AppendKeyword == \E keyword \in Keywords : Classify(text \o " " \o keyword)

PrependKeyword == \E keyword \in Keywords : Classify(keyword \o " " \o text)

NextClassify == AppendKeyword \/ PrependKeyword

SpecClassify == InitClassify /\ [][NextClassify]_vars
(***************************************************************************)
(* Properties                                                              *)
(***************************************************************************)
VerifyOps == {"verify_payment", "verify_payment_with_client_details"}

Returned(op) == last.op = op /\ ~last.raised

RuleOrder == <<"lookup", "amount_format", "amount", "name", "phone", "insert">>

NameFailedMessage == "Name verification failed. Please ensure you entered the correct name."

PhoneFailedMessage == "Phone number verification failed. Please check your mobile number."

\* what each check decides for the returned call, written from the rule's
\* statement; a check is only asked about when the earlier ones passed
RulePasses(rule) ==
    LET row == last.db_data[1]
        paid == ParseInt(AmountStr(row))
    IN CASE rule = "lookup" -> Len(last.db_data) > 0
         [] rule = "amount_format" -> paid.ok
         [] rule = "amount" -> paid.value >= last.required_amount
         [] rule = "name" -> NameMatches(row, last.client_name)
         [] rule = "phone" -> PhoneMatches(row, last.client_phone)
         [] rule = "insert" -> last.insert_ok

RuleMessage(rule) ==
    CASE rule = "lookup" -> "Payment not found. Please check your TxID."
      [] rule = "amount_format" -> "Invalid payment amount format."
      [] rule = "amount" ->
            "Insufficient payment. You are short by "
            \o ToString(last.required_amount - ParseInt(AmountStr(last.db_data[1])).value)
            \o " RWF."
      [] rule = "name" -> NameFailedMessage
      [] rule = "phone" -> PhoneFailedMessage
      [] rule = "insert" -> "Failed to record payment verification."

\* C1: verify_payment_with_client_details evaluates lookup, amount format,
\* amount, name, phone, insert in this order and stops at the first check that
\* fails: the checks evaluated are a prefix of the order, every check before
\* the last one passed, and when the last one failed the message is that
\* check's message.  In particular a sufficient amount with a non-matching
\* sender name gives not_approved with the name message whatever the phone.
C1_FailFastOrder ==
    Returned("verify_payment_with_client_details") =>
        LET n == Len(last.rules)
        IN /\ n \in 1..Len(RuleOrder)
           /\ last.rules = SubSeq(RuleOrder, 1, n)
           /\ \A i \in 1..(n - 1) : RulePasses(RuleOrder[i])
           /\ n < Len(RuleOrder) => ~RulePasses(RuleOrder[n])
           /\ ~RulePasses(RuleOrder[n]) =>
                 /\ last.result.message = RuleMessage(RuleOrder[n])
                 /\ last.result.status = IF RuleOrder[n] = "insert" THEN "error" ELSE "not_approved"
           /\ ( /\ Len(last.db_data) > 0
                /\ ParseInt(AmountStr(last.db_data[1])).ok
                /\ ParseInt(AmountStr(last.db_data[1])).value >= last.required_amount
                /\ ~NameMatches(last.db_data[1], last.client_name) )
              => /\ last.result.status = "not_approved"
                 /\ last.result.message = NameFailedMessage

\* a call whose name and phone both mismatch is answered with the name message
C1_Witness ==
    /\ Returned("verify_payment_with_client_details")
    /\ last.rules = SubSeq(RuleOrder, 1, 4)
    /\ ~PhoneMatches(last.db_data[1], last.client_phone)
    /\ last.result.message = NameFailedMessage

AuditRow(call, now) ==
    [txid |-> call.txid, client_name |-> call.client_name, client_phone |-> call.client_phone,
     verified_amount |-> call.result.amount, verification_status |-> "approved",
     created_at |-> now]

\* C2: a call of verify_payment_with_client_details that returns approved has
\* inserted exactly one audit row (txid, claimed name, claimed phone, verified
\* amount, "approved", timestamp) into payments; a call whose insert fails
\* returns error, and a call that returns not_approved or error leaves
\* payments unchanged.
C2_ApprovedOnlyAfterAudit ==
    [][ last'.op = "verify_payment_with_client_details" /\ ~last'.raised =>
          /\ last'.result.status = "approved" =>
                /\ last'.insert_ok
                /\ payments' = payments (+) SetToBag({AuditRow(last', clock)})
          /\ last'.result.status # "approved" => payments' = payments
          /\ ("insert_ok" \in DOMAIN last' /\ ~last'.insert_ok) => last'.result.status = "error"
          /\ last'.result.status = "not_approved" => "record" \notin DOMAIN last'
      ]_vars

C2_Witness ==
    /\ Returned("verify_payment_with_client_details")
    /\ last.result.status = "approved"
    /\ BagCardinality(payments) = 1
    /\ BagIn(AuditRow(last, clock - 1), payments)

\* C3: neither verification operation lets an exception reach its caller; a
\* store failure is returned as an outcome with status error.
C3_NoExceptionEscapes ==
    last.op \in VerifyOps =>
        /\ ~last.raised
        /\ last.result.status \in {"approved", "not_approved", "error"}
        /\ last.result.message # ""
        /\ ("insert_ok" \in DOMAIN last /\ ~last.insert_ok) => last.result.status = "error"

\* C4: verify_payment returns approved exactly when a row with the txid was
\* found, its amount parses as an integer once " RWF" and the commas are
\* removed, and the paid amount is at least the required amount; a smaller
\* amount gives not_approved with the shortage required - paid in the message,
\* and no row gives not_approved with "Payment is not approved.".
C4_SimpleVerification ==
    Returned("verify_payment") =>
        LET found == Len(last.db_data) > 0
            paid == ParseInt(AmountStr(last.db_data[1]))
        IN /\ last.result.status \in {"approved", "not_approved"}
           /\ last.result.status = "approved" <=>
                 (found /\ paid.ok /\ paid.value >= last.required_amount)
           /\ (found /\ paid.ok /\ paid.value < last.required_amount) =>
                 last.result.message = "Payment is not approved. You are short by "
                                       \o ToString(last.required_amount - paid.value) \o " RWF."
           /\ ~found => last.result.message = "Payment is not approved."

\* an exact payment and an overpayment are both approved, a shortage is reported
C4_Witness ==
    /\ Returned("verify_payment")
    /\ Len(last.db_data) > 0
    /\ last.db_data[1].amount = "100 RWF"
    /\ last.required_amount = 100
    /\ last.result.status = "approved"

NameChecked == Returned("verify_payment_with_client_details") /\ Len(last.rules) >= 4

NamePassed == NameChecked /\ Len(last.rules) >= 5

\* C5: the name check compares the stored sender_name and the claimed name
\* after lower-casing and trimming; it passes exactly when the stored name is
\* not empty and one of the two contains the other; when it fails the call
\* returns not_approved with the "Name verification failed" message.
C5_NameRule ==
    NameChecked =>
        LET stored == Strip(Lower(Get(last.db_data[1], "sender_name", "")))
            claimed == Strip(Lower(last.client_name))
        IN /\ NamePassed <=>
                 (stored # "" /\ (Contains(stored, claimed) \/ Contains(claimed, stored)))
           /\ ~NamePassed => /\ last.result.status = "not_approved"
                             /\ Contains(last.result.message, "Name verification failed")

\* the stored name is contained in a longer claimed name written in another case
C5_Witness ==
    /\ NamePassed
    /\ last.client_name = "Mr John Smith"
    /\ last.db_data[1].sender_name = "john smith"

PhoneChecked == Returned("verify_payment_with_client_details") /\ Len(last.rules) >= 5

PhonePassed == PhoneChecked /\ Len(last.rules) >= 6

\* C6: the phone check removes '+', spaces and hyphens from the claimed phone
\* and keeps its last 3 characters; with a non-empty stored
\* sender_phone_digits it passes exactly when that suffix ends with the last 2
\* characters of the stored digits, and fails with the phone message
\* otherwise; without stored digits it passes for every claimed phone.
C6_PhoneRule ==
    PhoneChecked =>
        LET stored == Get(last.db_data[1], "sender_phone_digits", "")
            cleaned == Replace(Replace(Replace(last.client_phone, "+", ""), " ", ""), "-", "")
            suffix == LastChars(cleaned, 3)
        IN /\ stored # "" => (PhonePassed <=> EndsWith(suffix, LastChars(stored, 2)))
           /\ stored = "" => PhonePassed
           /\ ~PhonePassed => /\ last.result.status = "not_approved"
                              /\ last.result.message = PhoneFailedMessage

\* stored digits 456, claimed number ending in 356: only the last 2 are compared
C6_Witness ==
    /\ PhonePassed
    /\ Get(last.db_data[1], "sender_phone_digits", "") = "456"
    /\ last.client_phone = "0788123356"

HasKeyword(keywords, sms_text) ==
    \E k \in 1..Len(keywords) : Contains(Lower(sms_text), keywords[k])

\* C7: the status is unknown when the text is not payment-related, otherwise
\* failed when a failure keyword occurs (even next to success keywords),
\* otherwise success when a success keyword occurs, otherwise unknown; so a
\* status other than unknown implies is_payment_sms.
C7_StatusRule ==
    /\ cls.status = IF ~cls.is_payment_sms THEN "unknown"
                    ELSE IF HasKeyword(payment_failure_keywords, text) THEN "failed"
                    ELSE IF HasKeyword(payment_success_keywords, text) THEN "success"
                    ELSE "unknown"
    /\ cls.status # "unknown" => cls.is_payment_sms

\* a text with a success and a failure keyword is classified failed
C7_Witness ==
    /\ added = 1
    /\ HasKeyword(payment_success_keywords, text)
    /\ HasKeyword(payment_failure_keywords, text)
    /\ cls.status = "failed"

KeywordsPresent(sms_text) == {keyword \in Keywords : Contains(Lower(sms_text), keyword)}

ExpectedConfidence(sms_text) ==
    Min(10, (IF AnyMomoPattern(sms_text) THEN 7 ELSE 0)
            + Min(3, Cardinality(KeywordsPresent(sms_text))))

\* C8: the confidence (in tenths) lies in 0..10, is 0 for an empty or
\* whitespace-only text, and otherwise is min(10, 7 if a format pattern
\* matches + min(3, number of distinct keywords present)); adding a keyword
\* to a payment-related text never decreases it.
C8_Confidence ==
    /\ [](/\ cls.confidence \in 0..10
          /\ cls.confidence = IF Strip(text) = "" THEN 0 ELSE ExpectedConfidence(text))
    /\ [][cls.is_payment_sms => cls'.confidence >= cls.confidence]_vars

\* four keywords without a pattern: the keyword part is capped at 3
C8_Witness ==
    /\ ~AnyMomoPattern(text)
    /\ Cardinality(KeywordsPresent(text)) >= 4
    /\ cls.confidence = 3
    /\ added = 1

\* C9: receive_sms issues the insert into Messages exactly when the message
\* is classified payment-related with status success, and then stores the
\* extracted row; any other message is answered "ignored" and leaves the
\* store unchanged.  So every stored row has payment_status success, and a
\* row found by a verification never comes from a message classified failed.
C9_OnlySuccessStored ==
    /\ [][ last'.op = "receive_sms" =>
             LET c == last'.classification
                 accepted == c.is_payment_sms /\ c.status = "success"
             IN /\ last'.insert <=> accepted
                /\ (accepted /\ ~last'.raised) =>
                      /\ last'.response.status = "saved"
                      /\ messages' = messages (+) SetToBag({last'.fields})
                /\ ~accepted => /\ last'.response.status = "ignored"
                                /\ messages' = messages
         ]_vars
    /\ [](\A row \in BagToSet(messages) :
             /\ row.payment_status = "success"
             /\ classify_payment_status(row.raw_text) = "success")
    /\ []((last.op \in VerifyOps /\ ~last.raised /\ last.result.status = "approved") =>
             last.db_data[1].payment_status = "success")

\* a failed transfer with the TxId of a stored payment was ignored
C9_Witness ==
    /\ last.op = "receive_sms"
    /\ last.classification.status = "failed"
    /\ last.response.status = "ignored"
    /\ \E row \in BagToSet(messages) : row.txid = "1"

\* C10: every stored row with a non-empty amount parses in the verification
\* operations, so no verification of such a row ends with the invalid amount
\* format outcome.
C10_StoredAmountParses ==
    /\ \A row \in BagToSet(messages) : row.amount # "" => ParseInt(AmountStr(row)).ok
    /\ (last.op \in VerifyOps /\ ~last.raised /\ Len(last.db_data) > 0
        /\ last.db_data[1].amount # "")
       => ~Contains(last.result.message, "nvalid")
====
